---- MODULE Spec2Model ----
(***************************************************************************)
(* Montana child support engine, src/shared/engine.js (the annualized      *)
(* engine with CSSD-style rounding, lines 216-574), and the SOLA section   *)
(* (computeSOLA) of src/public/engine.js.  Spec is one run of              *)
(* runMontanaChildSupport; SpecCalls is one direct call of a helper.       *)
(*                                                                         *)
(* Numbers.  A JavaScript value is a record [t, n, d]: t is the kind       *)
(* ("num", "nan", "inf", "str", "undef", "null"); for t = "num" the value  *)
(* is the exact rational n/d with d > 0.  "str" stands for a non-numeric   *)
(* string such as "abc", "undef" for a missing field.  Amounts stay below  *)
(* 2^31 for every input of the model (TLC reports an overflow otherwise).  *)
(* Arithmetic is exact; a double-precision port of the engine returns the  *)
(* same lines, per-child amounts and totals on every input of the model.   *)
(***************************************************************************)
EXTENDS Integers, Sequences, FiniteSets, TLC

VARIABLES params, pc, st, wsA, comb, perChildResults, sums, result

vars == <<params, pc, st, wsA, comb, perChildResults, sums, result>>

-----------------------------------------------------------------------------
(* JavaScript values *)

Num(n) == [t |-> "num", n |-> n, d |-> 1]
Q(n, d) == IF d < 0 THEN [t |-> "num", n |-> -n, d |-> -d]
                    ELSE [t |-> "num", n |-> n, d |-> d]
NaN == [t |-> "nan", n |-> 0, d |-> 1]
Infinity == [t |-> "inf", n |-> 0, d |-> 1]
NegInfinity == [t |-> "inf", n |-> -1, d |-> 1]
Str == [t |-> "str", n |-> 0, d |-> 1]
Undefined == [t |-> "undef", n |-> 0, d |-> 1]
Null == [t |-> "null", n |-> 0, d |-> 1]

\* unary plus / Number(x)
ToNumber(x) ==
  CASE x.t = "num" -> x
    [] x.t = "inf" -> x
    [] x.t = "null" -> Num(0)
    [] OTHER -> NaN

\* x || y : y when x is falsy (0, NaN, undefined, null)
OrElse(x, y) ==
  IF x.t \in {"nan", "undef", "null"} \/ (x.t = "num" /\ x.n = 0) THEN y ELSE x

\* destructuring default: applies to undefined only
Default(x, y) == IF x.t = "undef" THEN y ELSE x

\* x + y : concatenation as soon as one side is a string
JsAdd(x, y) ==
  IF x.t = "str" \/ y.t = "str" THEN Str
  ELSE LET a == ToNumber(x)
           b == ToNumber(y)
       IN CASE a.t = "nan" \/ b.t = "nan" -> NaN
            [] a.t = "inf" \/ b.t = "inf" -> Infinity
            [] OTHER -> Q(a.n * b.d + b.n * a.d, a.d * b.d)

\* x * y
JsMul(x, y) ==
  LET a == ToNumber(x)
      b == ToNumber(y)
  IN CASE a.t = "nan" \/ b.t = "nan" -> NaN
       [] a.t = "inf" -> IF b.t = "num" /\ b.n = 0 THEN NaN ELSE Infinity
       [] b.t = "inf" -> IF a.n = 0 THEN NaN ELSE Infinity
       [] OTHER -> Q(a.n * b.n, a.d * b.d)

\* x / k for an integer k
JsDivInt(x, k) ==
  LET a == ToNumber(x)
  IN CASE a.t # "num" -> a
       [] k = 0 -> IF a.n = 0 THEN NaN ELSE Infinity
       [] OTHER -> Q(a.n, a.d * k)

MathRoundHalfEven(n, d) ==
  LET q == n \div d
      r == n % d
  IN IF 2 * r > d \/ (2 * r = d /\ q % 2 = 1) THEN q + 1 ELSE q

\* Math.floor in the place of Math.round
MathRoundDown(n, d) == n \div d

\* Math.round of n/d, d > 0: half goes up (towards +infinity)
MathRound(n, d) ==
  LET q == n \div d
      r == n % d
  IN IF 2 * r >= d THEN q + 1 ELSE q

\* exact comparisons of two "num" values
QLe(a, b) == a.n * b.d <= b.n * a.d
QEq(a, b) == a.n * b.d = b.n * a.d

-----------------------------------------------------------------------------
(* Rounding helpers *)

\* Math.round(+x || 0): Math.round(Infinity) is Infinity, here the largest
\* 32-bit integer
r0NoFiniteGuard(x) ==
  LET v == ToNumber(x)
  IN CASE v.t = "num" -> MathRound(v.n, v.d)
       [] v.t = "inf" -> 2147483647
       [] OTHER -> 0

r0(x) ==
  LET v == ToNumber(x)
  IN IF v.t = "num" THEN MathRound(v.n, v.d) ELSE 0

\* rounding to whole units instead of cents (the result is still in cents)
r2WholeUnits(x) ==
  LET v == ToNumber(x)
  IN IF v.t = "num" THEN 100 * MathRound(v.n, v.d) ELSE 0

\* r2 in whole cents: Math.round(n * 100) / 100 is (result / 100)
r2(x) ==
  LET v == ToNumber(x)
  IN IF v.t = "num" THEN MathRound(v.n * 100, v.d) ELSE 0

-----------------------------------------------------------------------------
(* Guideline constants *)

PERSONAL_ALLOWANCE == 20345

PRIMARY_ALLOWANCE_BY_CHILD ==
  <<6104, 10173, 14242, 16276, 18311, 20345, 22380, 24414>>

\* in hundredths
SOLA_FACTOR_BY_CHILD == <<14, 21, 27, 31, 35, 39, 43, 47>>

\* in ten-thousandths
CREDIT_FACTOR == 69

\* min and max in thousandths, mult in hundredths
MIN_SUPPORT_BANDS ==
  << [min |-> 0,   max |-> 250,  mult |-> 0],
     [min |-> 251, max |-> 310,  mult |-> 1],
     [min |-> 311, max |-> 380,  mult |-> 2],
     [min |-> 381, max |-> 450,  mult |-> 3],
     [min |-> 451, max |-> 520,  mult |-> 4],
     [min |-> 521, max |-> 590,  mult |-> 5],
     [min |-> 591, max |-> 660,  mult |-> 6],
     [min |-> 661, max |-> 730,  mult |-> 7],
     [min |-> 731, max |-> 800,  mult |-> 8],
     [min |-> 801, max |-> 870,  mult |-> 9],
     [min |-> 871, max |-> 940,  mult |-> 10],
     [min |-> 941, max |-> 1000, mult |-> 11] >>

-----------------------------------------------------------------------------
(* Worksheet C *)

\* ratio >= band.min && ratio <= band.max
InBand(ratio, band) ==
  /\ QLe(Q(band.min, 1000), ratio)
  /\ QLe(ratio, Q(band.max, 1000))

BandsContainingClamped(ratio) ==
  LET c == IF QLe(ratio, Num(0)) THEN Num(0)
           ELSE IF QLe(Num(1), ratio) THEN Num(1) ELSE ratio
  IN {b \in 1..Len(MIN_SUPPORT_BANDS) : InBand(c, MIN_SUPPORT_BANDS[b])}

\* the bands of MIN_SUPPORT_BANDS that contain the ratio
BandsContaining(ratio) ==
  {b \in 1..Len(MIN_SUPPORT_BANDS) : InBand(ratio, MIN_SUPPORT_BANDS[b])}

\* L3 / L4 as JavaScript divides: Infinity or NaN for L4 = 0
RatioUnguarded(L3, L4) ==
  IF L4 = 0 THEN (IF L3 = 0 THEN NaN ELSE Infinity) ELSE Q(L3, L4)

\* line 292: L4 === 0 ? 0 : (L3 / L4)
Ratio(L3, L4) == IF L4 = 0 THEN Num(0) ELSE Q(L3, L4)

computeWorksheetC(line3, line4) ==
  LET L3 == r0(Num(line3))
      L4 == r0(Num(line4))
      ratio == Ratio(L3, L4)
      hits == BandsContaining(ratio)
      \* the loop breaks at the first band that matches
      first == IF hits = {} THEN 0
               ELSE CHOOSE b \in hits : \A c \in hits : b <= c
      mult == IF first = 0 THEN 0 ELSE MIN_SUPPORT_BANDS[first].mult
      minSupport == r0(Q(L3 * mult, 100))
  IN [ratio |-> ratio, mult |-> mult, minSupport |-> minSupport]

NoWsC == [ratio |-> Num(0), mult |-> -1, minSupport |-> 0]

-----------------------------------------------------------------------------
(* Worksheet A, part 1, for one parent *)

UsesWorksheetCAlways(L5) == TRUE

UsesWorksheetCBelowZero(L5) == L5 < 0

\* line 318: if (L5 <= 0)
UsesWorksheetC(L5) == L5 <= 0

computeWorksheetAPart1(grossAnnual, deductionsAnnual) ==
  LET L1i == r0(grossAnnual)
      L2l == r0(deductionsAnnual)
      L3 == r0(Num(L1i - L2l))
      L4 == PERSONAL_ALLOWANCE
      L5 == r0(Num(IF L3 - L4 > 0 THEN L3 - L4 ELSE 0))
      useC == UsesWorksheetC(L5)
      wsC == IF useC THEN computeWorksheetC(L3, L4) ELSE NoWsC
      L6 == IF useC THEN wsC.minSupport ELSE r0(Q(12 * L3, 100))
      L7 == r0(Num(IF L5 >= L6 THEN L5 ELSE L6))
  IN [L1i |-> L1i, L2l |-> L2l, L3 |-> L3, L4 |-> L4, L5 |-> L5,
      L6 |-> L6, L7 |-> L7, hasWsC |-> useC, wsC |-> wsC]

-----------------------------------------------------------------------------
(* Worksheet B, part 2, for one child *)

Min(a, b) == IF a <= b THEN a ELSE b
Max(a, b) == IF a >= b THEN a ELSE b
Abs(a) == IF a >= 0 THEN a ELSE -a

bothOver110Inclusive(daysM, daysF) == daysM >= 110 /\ daysF >= 110

\* lines 342-344
bothOver110(daysM, daysF) == daysM > 110 /\ daysF > 110

SimpleRuleSwapped(L1_M, L1_F, L2_M, L2_F) ==
  IF L2_M > L2_F
  THEN [line12_M |-> L1_M, line12_F |-> 0, rule |-> "simple"]
  ELSE [line12_M |-> 0, line12_F |-> L1_F, rule |-> "simple"]

\* lines 348-359: the overnights differ and not both exceed 110
SimpleRule(L1_M, L1_F, L2_M, L2_F) ==
  IF L2_M > L2_F
  THEN [line12_M |-> 0, line12_F |-> L1_F, rule |-> "simple"]
  ELSE [line12_M |-> L1_M, line12_F |-> 0, rule |-> "simple"]

EqualRuleSwapped(L1_M, L1_F) ==
  CASE L1_M > L1_F -> [line12_M |-> 0, line12_F |-> L1_M - L1_F, rule |-> "equal"]
    [] L1_F > L1_M -> [line12_M |-> L1_F - L1_M, line12_F |-> 0, rule |-> "equal"]
    [] OTHER -> [line12_M |-> 0, line12_F |-> 0, rule |-> "equal"]

\* lines 360-369: equal overnights, not both above 110
EqualRule(L1_M, L1_F) ==
  CASE L1_M > L1_F -> [line12_M |-> L1_M - L1_F, line12_F |-> 0, rule |-> "equal"]
    [] L1_F > L1_M -> [line12_M |-> 0, line12_F |-> L1_F - L1_M, rule |-> "equal"]
    [] OTHER -> [line12_M |-> 0, line12_F |-> 0, rule |-> "equal"]

CreditedObligationAllDays(L1, L2) ==
  LET L8 == r0(Q(CREDIT_FACTOR * L2 * L1, 10000))
  IN r0(Num(L1 - L8))

\* lines 373-388, one parent: L5 = days over 110, L7 = CREDIT_FACTOR * L5,
\* L8 = r0(L7 * L1), L9 = r0(L1 - L8)
CreditedObligation(L1, L2) ==
  LET L5 == Max(0, L2 - 110)
      L8 == r0(Q(CREDIT_FACTOR * L5 * L1, 10000))
  IN r0(Num(L1 - L8))

CreditProcedureNoCap(L1_M, L1_F, L2_M, L2_F) ==
  LET L9_M == CreditedObligation(L1_M, L2_M)
      L9_F == CreditedObligation(L1_F, L2_F)
      diff == Abs(L9_M - L9_F)
      L10_M == IF L9_M > L9_F THEN diff ELSE 0
      L10_F == IF L9_F > L9_M THEN diff ELSE 0
  IN [line12_M |-> L10_M, line12_F |-> L10_F, rule |-> "credit"]

\* lines 372-404
CreditProcedure(L1_M, L1_F, L2_M, L2_F) ==
  LET L9_M == CreditedObligation(L1_M, L2_M)
      L9_F == CreditedObligation(L1_F, L2_F)
      diff == Abs(L9_M - L9_F)
      L10_M == IF L9_M > L9_F THEN diff ELSE 0
      L10_F == IF L9_F > L9_M THEN diff ELSE 0
      L11_M == Min(L10_M, L1_M)
      L11_F == Min(L10_F, L1_F)
  IN [line12_M |-> L11_M, line12_F |-> L11_F, rule |-> "credit"]

computeWorksheetBPart2ForChildCeilBase(mAnnualObl, fAnnualObl, daysM, daysF) ==
  LET L1_M == -((-mAnnualObl.n) \div mAnnualObl.d)
      L1_F == -((-fAnnualObl.n) \div fAnnualObl.d)
  IN IF ~bothOver110(daysM, daysF)
     THEN IF daysM > daysF \/ daysF > daysM
          THEN SimpleRule(L1_M, L1_F, daysM, daysF)
          ELSE EqualRule(L1_M, L1_F)
     ELSE CreditProcedure(L1_M, L1_F, daysM, daysF)

computeWorksheetBPart2ForChildFloorBase(mAnnualObl, fAnnualObl, daysM, daysF) ==
  LET L1_M == mAnnualObl.n \div mAnnualObl.d
      L1_F == fAnnualObl.n \div fAnnualObl.d
  IN IF ~bothOver110(daysM, daysF)
     THEN IF daysM > daysF \/ daysF > daysM
          THEN SimpleRule(L1_M, L1_F, daysM, daysF)
          ELSE EqualRule(L1_M, L1_F)
     ELSE CreditProcedure(L1_M, L1_F, daysM, daysF)

\* rule names the return statement reached: "simple" (lines 348-359),
\* "equal" (lines 360-369), "credit" (lines 372-404)
computeWorksheetBPart2ForChild(mAnnualObl, fAnnualObl, daysM, daysF) ==
  LET L1_M == r0(mAnnualObl)
      L1_F == r0(fAnnualObl)
      L2_M == daysM
      L2_F == daysF
  IN IF ~bothOver110(L2_M, L2_F)
     THEN IF L2_M > L2_F \/ L2_F > L2_M
          THEN SimpleRule(L1_M, L1_F, L2_M, L2_F)
          ELSE EqualRule(L1_M, L1_F)
     ELSE CreditProcedure(L1_M, L1_F, L2_M, L2_F)

-----------------------------------------------------------------------------
(* runMontanaChildSupport, stage by stage *)

Nothing == [none |-> TRUE]

NoSupplements ==
  [k |-> "obj", childcare |-> Num(0), health |-> Num(0), med |-> Num(0),
   other |-> Num(0)]

NoParenting == [k |-> "arr", a |-> <<>>]

ClampKidsNoFloor(numChildren) ==
  LET x == ToNumber(OrElse(numChildren, Num(1)))
  IN CASE x.t = "nan" -> NaN
       [] x.t = "inf" -> Num(8)
       [] OTHER -> Num(Min(8, x.n))

\* Math.max(1, Math.min(8, numChildren || 1)), for whole child counts
ClampKids(numChildren) ==
  LET x == ToNumber(OrElse(numChildren, Num(1)))
  IN CASE x.t = "nan" -> NaN
       [] x.t = "inf" -> Num(8)
       [] OTHER -> Num(Max(1, Min(8, x.n)))

\* (supplements.childcare || 0) + (supplements.health || 0) + ...
TotalSupp(s) ==
  JsAdd(JsAdd(JsAdd(OrElse(s.childcare, Num(0)), OrElse(s.health, Num(0))),
              OrElse(s.med, Num(0))),
        OrElse(s.other, Num(0)))

\* lines 411-427: destructuring with defaults, kids, totalSupp.
\* Reading a field of a null supplements object throws.
Destructure(p) ==
  LET supplements == IF p.supplements.k = "undef" THEN NoSupplements
                     ELSE p.supplements
      parenting == IF p.parenting.k = "undef" THEN NoParenting ELSE p.parenting
  IN IF supplements.k = "null" THEN [threw |-> TRUE]
     ELSE [threw |-> FALSE,
           mIncome |-> Default(p.mIncome, Num(0)),
           mDed |-> Default(p.mDed, Num(0)),
           fIncome |-> Default(p.fIncome, Num(0)),
           fDed |-> Default(p.fDed, Num(0)),
           kids |-> ClampKids(Default(p.numChildren, Num(1))),
           totalSupp |-> TotalSupp(supplements),
           parenting |-> parenting]

\* lines 430-431
WorksheetAOfBoth(s) ==
  [mother |-> computeWorksheetAPart1(s.mIncome, s.mDed),
   father |-> computeWorksheetAPart1(s.fIncome, s.fDed)]

\* PRIMARY_ALLOWANCE_BY_CHILD[kids] || PRIMARY_ALLOWANCE_BY_CHILD[8]
TableRow(table, kids) ==
  IF kids.t = "num" /\ kids.n \in 1..Len(table) THEN table[kids.n] ELSE table[8]

SharesCopyPaste(mL7, fL7) ==
  LET combinedL7 == r0(Num(mL7 + fL7))
  IN IF combinedL7 > 0
     THEN [combinedL7 |-> combinedL7, shareM |-> Q(mL7, combinedL7),
           shareF |-> Q(mL7, combinedL7)]
     ELSE [combinedL7 |-> combinedL7, shareM |-> Q(1, 2), shareF |-> Q(1, 2)]

SharesZeroFallback(mL7, fL7) ==
  LET combinedL7 == r0(Num(mL7 + fL7))
  IN IF combinedL7 > 0
     THEN [combinedL7 |-> combinedL7, shareM |-> Q(mL7, combinedL7),
           shareF |-> Q(fL7, combinedL7)]
     ELSE [combinedL7 |-> combinedL7, shareM |-> Q(0, 2), shareF |-> Q(0, 2)]

\* lines 433-440
Shares(mL7, fL7) ==
  LET combinedL7 == r0(Num(mL7 + fL7))
  IN IF combinedL7 > 0
     THEN [combinedL7 |-> combinedL7, shareM |-> Q(mL7, combinedL7),
           shareF |-> Q(fL7, combinedL7)]
     ELSE [combinedL7 |-> combinedL7, shareM |-> Q(1, 2), shareF |-> Q(1, 2)]

IncomeForSolaNoFloor(L5, primaryShare, suppShare) ==
  r0(Num(L5 - primaryShare - suppShare))

\* lines 453-454: r0(Math.max(0, L5 - primaryShare - suppShare))
IncomeForSola(L5, primaryShare, suppShare) ==
  r0(Num(Max(0, L5 - primaryShare - suppShare)))

AfterCreditAdded(grossObl, credit) == r0(Num(Max(0, grossObl + credit)))

\* lines 468-469: r0(Math.max(0, grossObl - credit))
AfterCredit(grossObl, credit) == r0(Num(Max(0, grossObl - credit)))

\* lines 433-475
Combine(s, a) ==
  LET sh == Shares(a.mother.L7, a.father.L7)
      shareM == sh.shareM
      shareF == sh.shareF
      primaryTotal == TableRow(PRIMARY_ALLOWANCE_BY_CHILD, s.kids)
      solaFactor == TableRow(SOLA_FACTOR_BY_CHILD, s.kids)
      mPrimaryShare == r0(JsMul(shareM, Num(primaryTotal)))
      fPrimaryShare == r0(JsMul(shareF, Num(primaryTotal)))
      mSuppShare == r0(JsMul(shareM, s.totalSupp))
      fSuppShare == r0(JsMul(shareF, s.totalSupp))
      mIncomeForSola == IncomeForSola(a.mother.L5, mPrimaryShare, mSuppShare)
      fIncomeForSola == IncomeForSola(a.father.L5, fPrimaryShare, fSuppShare)
      mSOLA == r0(Q(mIncomeForSola * solaFactor, 100))
      fSOLA == r0(Q(fIncomeForSola * solaFactor, 100))
      totalAnnualSupportNeed ==
        r0(JsAdd(JsAdd(JsAdd(Num(primaryTotal), s.totalSupp), Num(mSOLA)),
                 Num(fSOLA)))
      mGrossObl == r0(JsMul(shareM, Num(totalAnnualSupportNeed)))
      fGrossObl == r0(JsMul(shareF, Num(totalAnnualSupportNeed)))
      mCredit == mSuppShare
      fCredit == fSuppShare
      mAnnualAfterCredit == AfterCredit(mGrossObl, mCredit)
      fAnnualAfterCredit == AfterCredit(fGrossObl, fCredit)
      perChild(x) == IF s.kids.t = "num" THEN JsDivInt(Num(x), s.kids.n) ELSE NaN
  IN [combinedL7 |-> sh.combinedL7,
      mother |-> [share |-> shareM, primaryShare |-> mPrimaryShare,
                  suppShare |-> mSuppShare, incomeForSola |-> mIncomeForSola,
                  sola |-> mSOLA, grossObl |-> mGrossObl, credit |-> mCredit,
                  annualAfterCredit |-> mAnnualAfterCredit],
      father |-> [share |-> shareF, primaryShare |-> fPrimaryShare,
                  suppShare |-> fSuppShare, incomeForSola |-> fIncomeForSola,
                  sola |-> fSOLA, grossObl |-> fGrossObl, credit |-> fCredit,
                  annualAfterCredit |-> fAnnualAfterCredit],
      primaryTotal |-> primaryTotal, solaFactor |-> solaFactor,
      totalSupp |-> s.totalSupp,
      totalAnnualSupportNeed |-> totalAnnualSupportNeed,
      mPerChildBase |-> perChild(mAnnualAfterCredit),
      fPerChildBase |-> perChild(fAnnualAfterCredit)]

\* "i <= kids"
LoopCountInclusive(kids) == IF kids.t = "num" THEN kids.n + 1 ELSE 0

\* number of iterations of "for (let i = 0; i < kids; i++)"
LoopCount(kids) == IF kids.t = "num" THEN kids.n ELSE 0

DefaultSched == [k |-> "obj", daysA |-> 255, daysB |-> 110]

\* parenting[i] for a 0-based index: undefined past the end of the list
EntryAt(parenting, i) ==
  IF i + 1 \in 1..Len(parenting.a) THEN parenting.a[i + 1]
  ELSE [k |-> "undef", daysA |-> 0, daysB |-> 0]

SchedForNoFirst(parenting, i) ==
  IF EntryAt(parenting, i).k = "obj" THEN EntryAt(parenting, i)
  ELSE DefaultSched

\* parenting[i] || parenting[0] || { daysA: 255, daysB: 110 }
SchedFor(parenting, i) ==
  IF EntryAt(parenting, i).k = "obj" THEN EntryAt(parenting, i)
  ELSE IF EntryAt(parenting, 0).k = "obj" THEN EntryAt(parenting, 0)
  ELSE DefaultSched

\* one iteration of the loop, lines 482-502, for the 0-based index i
ChildResult(s, c, i) ==
  LET sched == SchedFor(s.parenting, i)
      daysM == sched.daysA
      daysF == sched.daysB
      b2 == computeWorksheetBPart2ForChild(c.mPerChildBase, c.fPerChildBase,
                                           daysM, daysF)
      childAnnualM == r0(Num(b2.line12_M))
      childAnnualF == r0(Num(b2.line12_F))
  IN [childIndex |-> i + 1, annualM |-> childAnnualM, annualF |-> childAnnualF,
      monthlyM |-> r2(Q(childAnnualM, 12)), monthlyF |-> r2(Q(childAnnualF, 12)),
      daysM |-> daysM, daysF |-> daysF, rule |-> b2.rule]

FinalTransferTieToF(totalMonthlyM, totalMonthlyF) ==
  IF totalMonthlyM > totalMonthlyF
  THEN [payer |-> "M", monthlyTransfer |-> totalMonthlyM - totalMonthlyF]
  ELSE [payer |-> "F", monthlyTransfer |-> totalMonthlyF - totalMonthlyM]

FinalTransferTieToM(totalMonthlyM, totalMonthlyF) ==
  IF totalMonthlyM >= totalMonthlyF
  THEN [payer |-> "M", monthlyTransfer |-> totalMonthlyM - totalMonthlyF]
  ELSE [payer |-> "F", monthlyTransfer |-> totalMonthlyF - totalMonthlyM]

\* lines 511-525, monthly totals in cents
FinalTransfer(totalMonthlyM, totalMonthlyF) ==
  CASE totalMonthlyM > totalMonthlyF ->
         [payer |-> "M", monthlyTransfer |-> totalMonthlyM - totalMonthlyF]
    [] totalMonthlyF > totalMonthlyM ->
         [payer |-> "F", monthlyTransfer |-> totalMonthlyF - totalMonthlyM]
    [] OTHER -> [payer |-> "null", monthlyTransfer |-> 0]

\* lines 505-528 and the returned object; monthly amounts are in cents
Aggregate(a, c, children, sm) ==
  LET totalAnnualM == r0(Num(sm.M))
      totalAnnualF == r0(Num(sm.F))
      totalMonthlyM == r2(Q(totalAnnualM, 12))
      totalMonthlyF == r2(Q(totalAnnualF, 12))
      ft == FinalTransfer(totalMonthlyM, totalMonthlyF)
  IN [threw |-> FALSE,
      payer |-> ft.payer,
      totalAnnual |-> r0(Q(ft.monthlyTransfer * 12, 100)),
      totalMonthly |-> r2(Q(ft.monthlyTransfer, 100)),
      totalAnnualM |-> totalAnnualM, totalAnnualF |-> totalAnnualF,
      totalMonthlyM |-> totalMonthlyM, totalMonthlyF |-> totalMonthlyF,
      perChildResults |-> children,
      worksheetA |-> [mother |-> [part1 |-> a.mother, split |-> c.mother],
                      father |-> [part1 |-> a.father, split |-> c.father],
                      primaryTotal |-> c.primaryTotal,
                      totalSupp |-> c.totalSupp,
                      totalAnnualSupportNeed |-> c.totalAnnualSupportNeed]]

RECURSIVE SumAnnual(_, _, _)
SumAnnual(children, n, who) ==
  IF n = 0 THEN 0
  ELSE SumAnnual(children, n - 1, who)
       + (IF who = "M" THEN children[n].annualM ELSE children[n].annualF)

\* the whole function: what a call returns, or that it threw
runMontanaChildSupport(p) ==
  LET s == Destructure(p)
      a == WorksheetAOfBoth(s)
      c == Combine(s, a)
      n == LoopCount(s.kids)
      children == [i \in 1..n |-> ChildResult(s, c, i - 1)]
      sm == [M |-> SumAnnual(children, n, "M"), F |-> SumAnnual(children, n, "F")]
  IN IF s.threw THEN [threw |-> TRUE]
     ELSE IF n > 0 /\ s.parenting.k = "null" THEN [threw |-> TRUE]
     ELSE Aggregate(a, c, children, sm)

-----------------------------------------------------------------------------
(* src/public/engine.js: the SOLA section of Worksheet A (lines 15-24).    *)
(* The file holds two versions of computeSOLA, at line 298 and at line 575. *)

\* toNum: parseFloat(x) when finite, else 0
toNum(x) == IF x.t = "num" THEN x ELSE Num(0)

\* roundDollar: Math.round(toNum(x))
roundDollar(x) == MathRound(toNum(x).n, toNum(x).d)

\* x - y
JsSub(x, y) == JsAdd(x, JsMul(Num(-1), y))

\* Math.max and Math.min of two numbers
MathMax(a, b) == IF QLe(a, b) THEN b ELSE a
MathMin(a, b) == IF QLe(a, b) THEN a ELSE b

\* line 14 of the worksheet: parent.L6 > parent.L5
SkipSola(parent) == ~QLe(parent.L6, parent.L5)

\* computeSOLA of lines 298-352; L13_total and solaFactor (in hundredths)
\* are the enclosing function's worksheetA.L13_total and solaFactor
computeSOLA(parent, share, L13_total, solaFactor) ==
  IF SkipSola(parent)
  THEN LET L21 == parent.L6
           L22 == MathMax(L21, parent.L6)
           L23 == Num(0)
       IN [L15 |-> Null, L16 |-> Null, L17 |-> Num(0), L18a |-> Num(0),
           L18b |-> Num(0), L19 |-> Num(0), L20 |-> Num(0), L21 |-> L21,
           L22 |-> L22, L23 |-> L23,
           L24 |-> Num(roundDollar(MathMax(Num(0), JsSub(L22, L23))))]
  ELSE LET L15 == JsMul(Num(L13_total), share)
           L16 == MathMin(L15, parent.L5)
           L17 == MathMax(Num(0), JsSub(parent.L5, L16))
           L18a == Num(0)
           L18b == Num(0)
           L19 == MathMax(Num(0), JsSub(L17, JsAdd(L18a, L18b)))
           L20 == Num(roundDollar(JsMul(L19, Q(solaFactor, 100))))
           L21 == JsAdd(L16, L20)
           L22 == MathMax(L21, parent.L6)
           L23 == Num(0)
       IN [L15 |-> L15, L16 |-> L16, L17 |-> L17, L18a |-> L18a,
           L18b |-> L18b, L19 |-> L19, L20 |-> L20, L21 |-> L21,
           L22 |-> L22, L23 |-> L23,
           L24 |-> Num(roundDollar(MathMax(Num(0), JsSub(L22, L23))))]

\* computeSOLA of lines 575-612; primaryAllowance, totalSupplements and
\* solaFactor (in hundredths) are the enclosing function's
computeSOLA_575(parent, share, primaryAllowance, totalSupplements, solaFactor) ==
  IF SkipSola(parent)
  THEN LET L21 == parent.L6
           L22 == Num(0)
           L23 == JsSub(L21, L22)
       IN [L15 |-> Null, L16 |-> Null, L17 |-> Null, L18a |-> Null,
           L18b |-> Null, L19 |-> Null, L20 |-> Num(0), L21 |-> L21,
           L22 |-> L22, L23 |-> L23, L24 |-> Num(roundDollar(L23))]
  ELSE LET L15 == JsSub(JsSub(parent.L7, JsMul(share, Num(primaryAllowance))),
                        JsMul(share, Num(totalSupplements)))
           L16 == Num(0)
           L17 == JsSub(L15, L16)
           L18a == Num(0)
           L18b == Num(0)
           L19 == JsSub(L17, JsAdd(L18a, L18b))
           L20 == JsMul(L19, Q(solaFactor, 100))
           L21 == L20
           L22 == Num(0)
           L23 == JsSub(L21, L22)
       IN [L15 |-> L15, L16 |-> L16, L17 |-> L17, L18a |-> L18a,
           L18b |-> L18b, L19 |-> L19, L20 |-> L20, L21 |-> L21,
           L22 |-> L22, L23 |-> L23, L24 |-> Num(roundDollar(L23))]

-----------------------------------------------------------------------------
(* Inputs of the model *)

\* whole child counts run from -1 to MaxChildrenInput
MaxChildrenInput == 10

\* incomes are taken at each band edge and up to EdgeSpread above it
EdgeSpread == 1

\* longest parenting list
MaxSchedLen == 2

BandEdges ==
  {MIN_SUPPORT_BANDS[b].min : b \in 1..Len(MIN_SUPPORT_BANDS)}
  \cup {MIN_SUPPORT_BANDS[b].max : b \in 1..Len(MIN_SUPPORT_BANDS)}

\* incomes whose ratio to the personal allowance is just below or just above
\* a band edge
EdgeIncomes ==
  {(t * PERSONAL_ALLOWANCE) \div 1000 + e : t \in BandEdges, e \in 0..EdgeSpread}

OtherIncomes == {20346, 25000, 40000, 52000}

BadValues == {Undefined, Null, NaN, Infinity, Str}

Days == {0, 110, 111, 150, 215, 255, 365}

Entry(a, b) == [k |-> "obj", daysA |-> a, daysB |-> b]
Hole == [k |-> "undef", daysA |-> 0, daysB |-> 0]

FirstEntries == {Entry(a, b) : a \in Days, b \in Days} \cup {Hole}
LaterEntries == {Entry(111, 150), Entry(110, 110), Entry(0, 365), Hole}

RECURSIVE SchedLists(_)
SchedLists(n) ==
  IF n = 0 THEN {<<>>}
  ELSE IF n = 1 THEN {<<e>> : e \in FirstEntries}
  ELSE {Append(l, e) : l \in SchedLists(n - 1), e \in LaterEntries}

Parentings ==
  {[k |-> "arr", a |-> l] : l \in UNION {SchedLists(n) : n \in 0..MaxSchedLen}}

Supp(a, b, c, d) ==
  [k |-> "obj", childcare |-> a, health |-> b, med |-> c, other |-> d]

BaseSupp == Supp(Num(1200), Num(600), Num(0), Num(300))

Base ==
  [mIncome |-> Num(60000), mDed |-> Num(8000), fIncome |-> Num(40000),
   fDed |-> Num(5000), numChildren |-> Num(1), supplements |-> NoSupplements,
   parenting |-> NoParenting]

\* one parent's gross income sweeps the band edges
IncomeInputs ==
  {[Base EXCEPT !.mIncome = Num(g), !.mDed = Num(md), !.fIncome = Num(fi),
                !.fDed = Num(fd), !.numChildren = Num(n)] :
     g \in EdgeIncomes \cup OtherIncomes, md \in {0, 1000},
     fi \in {0, 6306, 40000}, fd \in {0, 5000}, n \in {1, 3}}

\* the child count, well formed or not
ChildCountInputs ==
  {[Base EXCEPT !.numChildren = n, !.mIncome = Num(g[1]), !.fIncome = Num(g[2]),
                !.supplements = s] :
     n \in {Num(k) : k \in -1..MaxChildrenInput} \cup BadValues,
     g \in {<<60000, 40000>>, <<0, 0>>, <<8000, 5000>>},
     s \in {NoSupplements, BaseSupp}}

\* parenting schedules; with a father's income of 40004 and three children
\* the per-child bases are 15653/3 and 7249/3
ScheduleInputs ==
  {[Base EXCEPT !.parenting = pa, !.numChildren = Num(n),
                !.fIncome = Num(fi)] :
     pa \in Parentings, n \in {1, 2, 3}, fi \in {40000, 40004, 52000}}

\* params missing or null: "params || {}" leaves every field undefined
MissingParams ==
  [mIncome |-> Undefined, mDed |-> Undefined, fIncome |-> Undefined,
   fDed |-> Undefined, numChildren |-> Undefined,
   supplements |-> [NoSupplements EXCEPT !.k = "undef"],
   parenting |-> [NoParenting EXCEPT !.k = "undef"]]

\* one numeric field at a time is missing or malformed (or 0, or well formed,
\* or negative)
FieldValues == BadValues \cup {Num(0), Num(700), Num(-2500)}

MalformedInputs ==
  LET b == [Base EXCEPT !.mIncome = Num(48000), !.fIncome = Num(36000),
                        !.supplements = BaseSupp, !.numChildren = Num(2)]
  IN {[b EXCEPT !.mIncome = v] : v \in FieldValues}
     \cup {[b EXCEPT !.mDed = v] : v \in FieldValues}
     \cup {[b EXCEPT !.fIncome = v] : v \in FieldValues}
     \cup {[b EXCEPT !.fDed = v] : v \in FieldValues}
     \cup {[b EXCEPT !.supplements.childcare = v] : v \in FieldValues}
     \cup {[b EXCEPT !.supplements.health = v] : v \in FieldValues}
     \cup {[b EXCEPT !.supplements.med = v] : v \in FieldValues}
     \cup {[b EXCEPT !.supplements.other = v] : v \in FieldValues}
     \cup {[b EXCEPT !.supplements = [BaseSupp EXCEPT !.k = k]] :
             k \in {"undef", "null"}}
     \cup {[b EXCEPT !.parenting = [NoParenting EXCEPT !.k = k]] :
             k \in {"undef", "null"}}
     \cup {MissingParams}

\* two parents with the same income and deductions and equal overnights
EqualParentInputs ==
  {[Base EXCEPT !.mIncome = Num(g), !.mDed = Num(5000), !.fIncome = Num(g),
                !.fDed = Num(5000), !.numChildren = Num(n),
                !.parenting = [k |-> "arr", a |-> <<Entry(d, d)>>]] :
     g \in {0, 40000}, n \in {1, 3}, d \in {0, 110, 150}}

Inputs ==
  IncomeInputs \cup ChildCountInputs \cup ScheduleInputs \cup MalformedInputs
  \cup EqualParentInputs

-----------------------------------------------------------------------------
(* The run as a state machine: pc is the position inside the call *)

Init ==
  /\ params \in Inputs
  /\ pc = "start"
  /\ st = Nothing
  /\ wsA = Nothing
  /\ comb = Nothing
  /\ perChildResults = <<>>
  /\ sums = [M |-> 0, F |-> 0]
  /\ result = Nothing

\* lines 411-427
DestructureStep ==
  /\ pc = "start"
  /\ st' = Destructure(params)
  /\ pc' = IF st'.threw THEN "threw" ELSE "worksheetA"
  /\ UNCHANGED <<params, wsA, comb, perChildResults, sums, result>>

\* lines 430-431
WorksheetAStep ==
  /\ pc = "worksheetA"
  /\ wsA' = WorksheetAOfBoth(st)
  /\ pc' = "combine"
  /\ UNCHANGED <<params, st, comb, perChildResults, sums, result>>

\* lines 433-479
CombineStep ==
  /\ pc = "combine"
  /\ comb' = Combine(st, wsA)
  /\ pc' = "children"
  /\ UNCHANGED <<params, st, wsA, perChildResults, sums, result>>

\* one iteration of the loop of lines 481-503; indexing a null list throws
ChildStep ==
  /\ pc = "children"
  /\ Len(perChildResults) < LoopCount(st.kids)
  /\ IF st.parenting.k = "null"
     THEN /\ pc' = "threw"
          /\ UNCHANGED <<perChildResults, sums>>
     ELSE LET r == ChildResult(st, comb, Len(perChildResults))
          IN /\ perChildResults' = Append(perChildResults, r)
             /\ sums' = [M |-> sums.M + r.annualM, F |-> sums.F + r.annualF]
             /\ pc' = "children"
  /\ UNCHANGED <<params, st, wsA, comb, result>>

\* lines 505-573
AggregateStep ==
  /\ pc = "children"
  /\ Len(perChildResults) >= LoopCount(st.kids)
  /\ result' = Aggregate(wsA, comb, perChildResults, sums)
  /\ pc' = "done"
  /\ UNCHANGED <<params, st, wsA, comb, perChildResults, sums>>

Next ==
  \/ DestructureStep
  \/ WorksheetAStep
  \/ CombineStep
  \/ ChildStep
  \/ AggregateStep

Spec == Init /\ [][Next]_vars

\* the steps compute what the function returns
StepsAgree ==
  /\ pc = "done" => result = runMontanaChildSupport(params)
  /\ pc = "threw" => runMontanaChildSupport(params).threw

-----------------------------------------------------------------------------
(* Direct calls of the helpers: params holds the arguments, pc names the   *)
(* function called until it returns, result holds what it returned.        *)

\* r0 is called with every thousandth from -(RoundUnits + 0.6) to
\* RoundUnits + 0.6, r2 with every hundredth of that range
RoundUnits == 2

NonNumbers == BadValues \cup {NegInfinity}

R0Args ==
  {Q(k, 1000) : k \in -(RoundUnits * 1000 + 600)..(RoundUnits * 1000 + 600)}
  \cup NonNumbers

\* on a hundredth n * 100 is a whole number up to the floating-point error
R2Args ==
  {Q(k, 100) : k \in -(RoundUnits * 100 + 60)..(RoundUnits * 100 + 60)}
  \cup NonNumbers

\* line 3 below 0, inside the bands and above the allowance; line 4 is 0,
\* the personal allowance, or some other positive amount
WorksheetCArgs ==
  {[line3 |-> a, line4 |-> b] :
     a \in EdgeIncomes \cup {-8000, -1, 0, 10001, 20346, 30000, 40690},
     b \in {0, 10000, PERSONAL_ALLOWANCE}}

\* a parent's lines 5 to 7, the share, and the table row and supplements of
\* the enclosing run
SolaArgs ==
  {[parent |-> [L5 |-> Num(a), L6 |-> b, L7 |-> MathMax(Num(a), b)],
    share |-> sh, kids |-> k, totalSupplements |-> ts] :
     a \in {0, 1000, 19655, 31655},
     b \in {Num(0), Num(600), Q(4800 * 12, 100), Num(1000), Num(6000)},
     sh \in {Q(1, 2), Q(1, 4), Num(1)}, k \in {1, 3}, ts \in {0, 2100}}

InitCalls ==
  /\ \/ pc = "r0" /\ params \in {[x |-> v] : v \in R0Args}
     \/ pc = "r2" /\ params \in {[x |-> v] : v \in R2Args}
     \/ pc = "computeWorksheetC" /\ params \in WorksheetCArgs
     \/ pc = "computeSOLA" /\ params \in SolaArgs
     \/ pc = "computeSOLA_575" /\ params \in SolaArgs
  /\ st = Nothing
  /\ wsA = Nothing
  /\ comb = Nothing
  /\ perChildResults = <<>>
  /\ sums = [M |-> 0, F |-> 0]
  /\ result = Nothing

Returns(fn, value) ==
  /\ pc = fn
  /\ result' = [fn |-> fn, value |-> value]
  /\ pc' = "returned"
  /\ UNCHANGED <<params, st, wsA, comb, perChildResults, sums>>

R0Call == Returns("r0", r0(params.x))

R2Call == Returns("r2", r2(params.x))

WorksheetCCall ==
  Returns("computeWorksheetC", computeWorksheetC(params.line3, params.line4))

\* src/public/engine.js line 354: L13_total = primaryAllowance + totalSupplements
ComputeSOLACall ==
  Returns("computeSOLA",
          computeSOLA(params.parent, params.share,
                      PRIMARY_ALLOWANCE_BY_CHILD[params.kids]
                        + params.totalSupplements,
                      SOLA_FACTOR_BY_CHILD[params.kids]))

\* src/public/engine.js line 614
ComputeSOLA575Call ==
  Returns("computeSOLA_575",
          computeSOLA_575(params.parent, params.share,
                          PRIMARY_ALLOWANCE_BY_CHILD[params.kids],
                          params.totalSupplements,
                          SOLA_FACTOR_BY_CHILD[params.kids]))

NextCalls ==
  \/ R0Call
  \/ R2Call
  \/ WorksheetCCall
  \/ ComputeSOLACall
  \/ ComputeSOLA575Call

SpecCalls == InitCalls /\ [][NextCalls]_vars

\* the function fn has returned
Returned(fn) == pc = "returned" /\ result.fn = fn

-----------------------------------------------------------------------------
(* Properties *)

\* wsA holds both parents' Worksheet A lines
AfterWorksheetA == pc \in {"combine", "children", "done"}

\* comb holds the combined resolver's lines
AfterCombine == pc \in {"children", "done"}

Parents == {"mother", "father"}

\* the child count handed in, after the destructuring default
GivenChildren == Default(params.numChildren, Num(1))

\* C1: whenever Worksheet C is run for a parent whose income after
\* deductions L3 has a ratio L3/20345 in [0,1], exactly one band of
\* MIN_SUPPORT_BANDS contains the ratio: no ratio falls between one band's
\* max and the next band's min, and none lies in two bands.
C1_BandSelectionTotal ==
  AfterWorksheetA =>
    \A who \in Parents :
      LET w == wsA[who]
      IN (w.hasWsC /\ w.L3 >= 0 /\ w.L3 <= w.L4)
           => Cardinality(BandsContaining(w.wsC.ratio)) = 1

\* what the resolver computes for the input p
CombinedOf(p) ==
  LET s == Destructure(p)
  IN Combine(s, WorksheetAOfBoth(s))

SweepIncomes == EdgeIncomes \cup OtherIncomes

\* C2: with everything else fixed, a parent's share with a gross income
\* g2 >= g1 is not smaller than the share with g1 (g1 is the income of the
\* run, g2 ranges over the incomes of the model).
C2_ShareMonotone ==
  (pc = "done" /\ params.mIncome.t = "num" /\ params.fIncome.t = "num") =>
    \A g2 \in SweepIncomes :
      /\ g2 >= params.mIncome.n =>
           QLe(comb.mother.share,
               CombinedOf([params EXCEPT !.mIncome = Num(g2)]).mother.share)
      /\ g2 >= params.fIncome.n =>
           QLe(comb.father.share,
               CombinedOf([params EXCEPT !.fIncome = Num(g2)]).father.share)

\* C3: shareM + shareF = 1 (as exact fractions); with combined line 7 > 0
\* each share is own line 7 over combined line 7, and with both line 7
\* equal to 0 both shares are 1/2.
C3_SharesSumToOne ==
  AfterCombine =>
    LET m == comb.mother.share
        f == comb.father.share
        mL7 == wsA.mother.L7
        fL7 == wsA.father.L7
    IN /\ QEq(f, Q(m.d - m.n, m.d))
       /\ mL7 + fL7 > 0 => /\ QEq(m, Q(mL7, mL7 + fL7))
                           /\ QEq(f, Q(fL7, mL7 + fL7))
       /\ (mL7 = 0 /\ fL7 = 0) => (QEq(m, Q(1, 2)) /\ QEq(f, Q(1, 2)))

\* a run where both parents have a positive line 7 and so a share strictly
\* between 0 and 1
C3_Witness ==
  /\ pc = "done"
  /\ wsA.mother.L7 > 0 /\ wsA.father.L7 > 0
  /\ comb.mother.share.n > 0 /\ comb.father.share.n > 0

StatutoryPrimary == <<6104, 10173, 14242, 16276, 18311, 20345, 22380, 24414>>
StatutorySola == <<14, 21, 27, 31, 35, 39, 43, 47>>

\* C4: for a whole child count c the engine uses the statutory primary
\* allowance and SOLA factor (in hundredths) of row c for c in 1..8, of row 8
\* for c > 8 and of row 1 for c < 1.
C4_TableRows ==
  (AfterCombine /\ GivenChildren.t = "num") =>
    LET c == GivenChildren.n
        row == IF c > 8 THEN 8 ELSE IF c < 1 THEN 1 ELSE c
    IN /\ comb.primaryTotal = StatutoryPrimary[row]
       /\ comb.solaFactor = StatutorySola[row]

\* a run with a child count below 1 that used row 1
C4_Witness ==
  /\ pc = "done"
  /\ GivenChildren.t = "num" /\ GivenChildren.n < 1
  /\ comb.primaryTotal = 6104 /\ comb.solaFactor = 14
  /\ Len(perChildResults) = 1

\* C5: for every child the credit procedure ran if and only if both
\* parents' overnights are strictly greater than 110.
C5_CreditIffBothOver110 ==
  \A i \in 1..Len(perChildResults) :
    LET c == perChildResults[i]
    IN (c.rule = "credit") <=> (c.daysM > 110 /\ c.daysF > 110)

\* one child at exactly 110 overnights for a parent took the simple rule and
\* another child at 111 (the other parent above 110 too) took the credit branch
C5_Witness ==
  \E i, j \in 1..Len(perChildResults) :
    /\ perChildResults[i].daysM = 110 /\ perChildResults[i].daysF > 110
    /\ perChildResults[i].rule = "simple"
    /\ perChildResults[j].daysM = 111 /\ perChildResults[j].daysF > 110
    /\ perChildResults[j].rule = "credit"

\* per-child base obligation in whole units (line 1 of Worksheet B)
BaseM == r0(comb.mPerChildBase)
BaseF == r0(comb.fPerChildBase)

\* C6: for a child where not both parents exceed 110 overnights and the
\* overnights differ, the parent with strictly fewer overnights owes their own
\* per-child base obligation (line 1, in whole units) and the other owes 0.
C6_SimpleRule ==
  \A i \in 1..Len(perChildResults) :
    LET c == perChildResults[i]
    IN (~(c.daysM > 110 /\ c.daysF > 110) /\ c.daysM # c.daysF) =>
         IF c.daysM < c.daysF
         THEN c.annualM = BaseM /\ c.annualF = 0
         ELSE c.annualF = BaseF /\ c.annualM = 0

\* the example: mother 60000/8000, father 40000/5000, 1 child, no
\* supplements, overnights 365/0: father owes his full base, mother owes 0
C6_Witness ==
  /\ pc = "done"
  /\ params.mIncome = Num(60000) /\ params.mDed = Num(8000)
  /\ params.fIncome = Num(40000) /\ params.fDed = Num(5000)
  /\ params.numChildren = Num(1) /\ params.supplements = NoSupplements
  /\ params.parenting.a = <<Entry(365, 0)>>
  /\ perChildResults[1].annualF = comb.father.annualAfterCredit
  /\ perChildResults[1].annualF = 3713
  /\ perChildResults[1].annualM = 0
  /\ result.payer = "F"

\* base - round(0.0069 * (overnights - 110) * base)
Adjusted(base, overnights) ==
  base - MathRound(69 * (overnights - 110) * base, 10000)

\* C7: for a child where both parents exceed 110 overnights, the parent with
\* the strictly larger adjusted obligation owes min(|adjustedM - adjustedF|,
\* own base), the other owes 0, and both owe 0 when the two are equal.
C7_CreditProcedure ==
  \A i \in 1..Len(perChildResults) :
    LET c == perChildResults[i]
        adjM == Adjusted(BaseM, c.daysM)
        adjF == Adjusted(BaseF, c.daysF)
    IN (c.daysM > 110 /\ c.daysF > 110) =>
         /\ adjM > adjF => (c.annualM = Min(adjM - adjF, BaseM) /\ c.annualF = 0)
         /\ adjF > adjM => (c.annualF = Min(adjF - adjM, BaseF) /\ c.annualM = 0)
         /\ adjM = adjF => (c.annualM = 0 /\ c.annualF = 0)

\* the example: overnights 150/215 for a single child give one net payer
C7_Witness ==
  /\ pc = "done"
  /\ params.fIncome = Num(40000) /\ params.numChildren = Num(1)
  /\ params.parenting.a = <<Entry(150, 215)>>
  /\ perChildResults[1].rule = "credit"
  /\ perChildResults[1].annualM = 4783
  /\ perChildResults[1].annualF = 0
  /\ result.payer = "M" /\ result.totalAnnual = 4783

\* C8: payer is the mother iff totalMonthlyM > totalMonthlyF, the father iff
\* totalMonthlyF > totalMonthlyM, none iff they are equal; totalMonthly is the
\* positive difference of the monthly totals and 0 when payer is none.
C8_FinalPayer ==
  pc = "done" =>
    /\ (result.payer = "M") <=> (result.totalMonthlyM > result.totalMonthlyF)
    /\ (result.payer = "F") <=> (result.totalMonthlyF > result.totalMonthlyM)
    /\ (result.payer = "null") <=> (result.totalMonthlyM = result.totalMonthlyF)
    /\ result.totalMonthly = Abs(result.totalMonthlyM - result.totalMonthlyF)
    /\ result.payer = "null" => result.totalMonthly = 0

\* both parents owe something for some child, the larger total decides
C8_Witness ==
  /\ pc = "done"
  /\ result.totalMonthlyM > 0 /\ result.totalMonthlyF > result.totalMonthlyM
  /\ result.payer = "F"
  /\ result.totalMonthly = result.totalMonthlyF - result.totalMonthlyM

\* the entry the caller supplied for the 1-based child index i, if any
Supplied(i) ==
  /\ params.parenting.k = "arr"
  /\ i <= Len(params.parenting.a)
  /\ params.parenting.a[i].k = "obj"

NoScheduleAtAll ==
  params.parenting.k # "arr" \/ \A i \in 1..Len(params.parenting.a) : ~Supplied(i)

\* C9 as stated: a child index without a schedule entry runs with 255
\* overnights for one parent and 110 for the other, and with no schedule at
\* all every child runs with zero overnights for both parents.
C9_AsStated ==
  pc = "done" =>
    \A i \in 1..Len(perChildResults) :
      LET c == perChildResults[i]
      IN /\ (~Supplied(i) /\ ~NoScheduleAtAll) =>
              <<c.daysM, c.daysF>> \in {<<255, 110>>, <<110, 255>>}
         /\ NoScheduleAtAll => <<c.daysM, c.daysF>> = <<0, 0>>

\* C9, amended: a child index without a schedule entry runs with the first
\* child's entry when there is one, and otherwise (no first entry, or no
\* schedule at all) with 255 overnights for the mother and 110 for the father.
C9_DefaultSchedule ==
  pc = "done" =>
    \A i \in 1..Len(perChildResults) :
      LET c == perChildResults[i]
          e == params.parenting.a
      IN <<c.daysM, c.daysF>> =
           IF Supplied(i) THEN <<e[i].daysA, e[i].daysB>>
           ELSE IF Supplied(1) THEN <<e[1].daysA, e[1].daysB>>
           ELSE <<255, 110>>

\* three children, one schedule entry: the third child ran with the first
\* child's entry, which is not the 255/110 default
C9_Witness ==
  /\ pc = "done"
  /\ Len(perChildResults) = 3
  /\ Supplied(1) /\ ~Supplied(3)
  /\ <<perChildResults[3].daysM, perChildResults[3].daysF>> = <<0, 365>>

IncomeFields == {"mIncome", "mDed", "fIncome", "fDed"}
SuppFields == {"childcare", "health", "med", "other"}

\* C10: a gross income, a deduction or a supplemental expense that is
\* missing, non-numeric or non-finite gives the result of the same input with
\* that field set to 0.
C10_MalformedIsZero ==
  pc = "done" =>
    /\ \A f \in IncomeFields :
         params[f] \in BadValues =>
           result = runMontanaChildSupport([params EXCEPT ![f] = Num(0)])
    /\ \A f \in SuppFields :
         (params.supplements.k = "obj" /\ params.supplements[f] \in BadValues) =>
           result = runMontanaChildSupport(
                      [params EXCEPT !.supplements[f] = Num(0)])

\* the child count of the run: the given count clamped to 1..8
ClampedCount ==
  IF GivenChildren.t = "num" THEN Max(1, Min(8, GivenChildren.n))
  ELSE IF GivenChildren.t = "inf" THEN 8 ELSE 1

\* C11: no run raises an error, and a finished run returns one per-child
\* entry per child and a finite number for the supplement total of its
\* worksheet trail (every other amount of the result is a whole number by
\* construction).
C11_NeverThrows ==
  /\ pc # "threw"
  /\ pc = "done" =>
       /\ Len(result.perChildResults) = ClampedCount
       /\ result.worksheetA.totalSupp.t = "num"

\* C12: when the combined line 7 is 0, each parent's share is 1/2, the
\* primary allowance and the SOLA factor are those of the table row of the
\* clamped child count (for a child count that is a number or missing), both
\* SOLA amounts are 0 and each parent's gross obligation is
\* round(0.5 * total support need).
C12_ZeroCombinedIncome ==
  (AfterCombine /\ comb.combinedL7 = 0) =>
    /\ \A who \in Parents :
         /\ comb[who].share = Q(1, 2)
         /\ comb[who].sola = 0
         /\ comb[who].grossObl = MathRound(comb.totalAnnualSupportNeed, 2)
    /\ GivenChildren.t # "str" =>
         /\ comb.primaryTotal = StatutoryPrimary[ClampedCount]
         /\ comb.solaFactor = StatutorySola[ClampedCount]

\* both gross incomes 0, three children, supplements of 2100: the need is
\* 14242 + 2100 and each parent's gross obligation is half of it
C12_Witness ==
  /\ pc = "done"
  /\ params.mIncome = Num(0) /\ params.fIncome = Num(0)
  /\ params.numChildren = Num(3) /\ params.supplements = BaseSupp
  /\ comb.combinedL7 = 0
  /\ comb.primaryTotal = 14242 /\ comb.solaFactor = 27
  /\ comb.totalAnnualSupportNeed = 16342
  /\ comb.mother.grossObl = 8171 /\ comb.father.grossObl = 8171

\* C13: for each parent line 7 is >= 0; line 6 comes from Worksheet C if
\* and only if line 5 is <= 0, and is round(0.12 * line 3) otherwise; line 7
\* is the larger of line 5 and line 6.
C13_MinimumFloor ==
  AfterWorksheetA =>
    \A who \in Parents :
      LET w == wsA[who]
      IN /\ w.L7 >= 0
         /\ w.hasWsC <=> w.L5 <= 0
         /\ w.hasWsC => w.L6 = w.wsC.minSupport
         /\ ~w.hasWsC => w.L6 = MathRound(12 * w.L3, 100)
         /\ w.L7 = Max(w.L5, w.L6)

\* the mother is one unit above the personal allowance (line 5 = 1, line 6 =
\* 12% of line 3 is the larger), the father has no income available and a
\* Worksheet C minimum of 1% of his line 3
C13_Witness ==
  /\ pc = "done"
  /\ wsA.mother.L3 = 20346 /\ wsA.mother.L5 = 1 /\ ~wsA.mother.hasWsC
  /\ wsA.mother.L6 = 2442 /\ wsA.mother.L7 = 2442
  /\ wsA.father.L3 = 6306 /\ wsA.father.L5 = 0 /\ wsA.father.hasWsC
  /\ wsA.father.L6 = 63 /\ wsA.father.L7 = 63

\* C14: r0 rounds half up: for a number x the returned whole unit out
\* satisfies x - 1/2 < out <= x + 1/2, so a fractional part below 0.5 gives
\* the next lower whole unit and a fractional part of 0.5 or more, exactly
\* .50 included, the next higher one.
C14_RoundHalfUp ==
  (Returned("r0") /\ params.x.t = "num") =>
    LET n == params.x.n
        d == params.x.d
        out == result.value
    IN /\ 2 * n - d < 2 * d * out
       /\ 2 * d * out <= 2 * n + d

\* 2.500 is rounded to 3, not to the even 2
C14_Witness ==
  /\ Returned("r0")
  /\ params.x = Q(2500, 1000)
  /\ result.value = 3

\* C15: r0 and r2 return 0 for every argument that is not a finite number:
\* NaN, Infinity, -Infinity, undefined, null and non-numeric text.
C15_NonNumbersGiveZero ==
  ((Returned("r0") \/ Returned("r2")) /\ params.x \in NonNumbers) =>
    result.value = 0

\* r0 returned 0 for -Infinity
C15_Witness ==
  /\ Returned("r0")
  /\ params.x = NegInfinity
  /\ result.value = 0

SolaSubLines == {"L15", "L16", "L17", "L18a", "L18b", "L19", "L20"}

\* C17: when computeSOLA (either version) skips SOLA for a parent, line 6
\* being greater than line 5, every SOLA sub-line L15 to L20 of what it
\* returns is null and L21 is the parent's line 6.
C17_SkippedSubLinesBlank ==
  ((Returned("computeSOLA") \/ Returned("computeSOLA_575"))
     /\ SkipSola(params.parent)) =>
    /\ \A l \in SolaSubLines : result.value[l] = Null
    /\ result.value.L21 = params.parent.L6

\* the owed amounts <<mother, father>> of one child when the per-child bases
\* aM / k and aF / k enter the rules unrounded and only the owed amount is
\* rounded
UnroundedOwed(aM, aF, k, dM, dF) ==
  LET adjM == aM * (10000 - CREDIT_FACTOR * (dM - 110))
      adjF == aF * (10000 - CREDIT_FACTOR * (dF - 110))
  IN IF ~(dM > 110 /\ dF > 110)
     THEN CASE dM < dF -> <<MathRound(aM, k), 0>>
            [] dF < dM -> <<0, MathRound(aF, k)>>
            [] aM > aF -> <<MathRound(aM - aF, k), 0>>
            [] OTHER -> <<0, MathRound(aF - aM, k)>>
     ELSE CASE adjM > adjF ->
                 <<MathRound(Min(adjM - adjF, aM * 10000), 10000 * k), 0>>
            [] OTHER ->
                 <<0, MathRound(Min(adjF - adjM, aF * 10000), 10000 * k)>>

\* the same when each base is rounded to a whole unit first (line 1) and the
\* credit procedure rounds each line it writes
RoundedOwed(aM, aF, k, dM, dF) ==
  LET L1_M == MathRound(aM, k)
      L1_F == MathRound(aF, k)
      adjM == Adjusted(L1_M, dM)
      adjF == Adjusted(L1_F, dF)
  IN IF ~(dM > 110 /\ dF > 110)
     THEN CASE dM < dF -> <<L1_M, 0>>
            [] dF < dM -> <<0, L1_F>>
            [] L1_M > L1_F -> <<L1_M - L1_F, 0>>
            [] OTHER -> <<0, L1_F - L1_M>>
     ELSE CASE adjM > adjF -> <<Min(adjM - adjF, L1_M), 0>>
            [] OTHER -> <<0, Min(adjF - adjM, L1_F)>>

\* C18 as stated: each child's owed amounts are the simple rule, the
\* equal-overnights rule or the credit procedure applied to the unrounded
\* per-child bases, rounded once at the end.
C18_AsStated ==
  (pc = "done" /\ st.kids.t = "num") =>
    \A i \in 1..Len(perChildResults) :
      LET c == perChildResults[i]
      IN <<c.annualM, c.annualF>> =
           UnroundedOwed(comb.mother.annualAfterCredit,
                         comb.father.annualAfterCredit, st.kids.n,
                         c.daysM, c.daysF)

\* C18, amended: the per-child base handed to the Worksheet B adjuster is
\* the net annual obligation divided by the child count, unrounded; the
\* adjuster rounds it to a whole unit (line 1) before any rule uses it, and
\* each child's owed amounts are the rules applied to the rounded bases.
C18_RoundedAtLineOne ==
  (pc = "done" /\ st.kids.t = "num") =>
    /\ comb.mPerChildBase = Q(comb.mother.annualAfterCredit, st.kids.n)
    /\ comb.fPerChildBase = Q(comb.father.annualAfterCredit, st.kids.n)
    /\ \A i \in 1..Len(perChildResults) :
         LET c == perChildResults[i]
         IN <<c.annualM, c.annualF>> =
              RoundedOwed(comb.mother.annualAfterCredit,
                          comb.father.annualAfterCredit, st.kids.n,
                          c.daysM, c.daysF)

\* three children with equal overnights: both per-child bases have a
\* fraction, and the difference of the rounded bases that the engine returns
\* is not the rounded difference of the unrounded bases
C18_Witness ==
  /\ pc = "done"
  /\ st.kids = Num(3)
  /\ comb.mother.annualAfterCredit % 3 # 0
  /\ comb.father.annualAfterCredit % 3 # 0
  /\ \E i \in 1..Len(perChildResults) :
       LET c == perChildResults[i]
       IN /\ c.rule = "equal"
          /\ <<c.annualM, c.annualF>> #
               UnroundedOwed(comb.mother.annualAfterCredit,
                             comb.father.annualAfterCredit, 3,
                             c.daysM, c.daysF)

\* the ratio lies outside [0, 1]
OutsideUnit(ratio) == ~QLe(Num(0), ratio) \/ ~QLe(ratio, Num(1))

\* C19 as stated: a ratio below 0 gives the first band's multiplier 0 and a
\* ratio above 1 the last band's multiplier 0.11 (11 hundredths).
C19_AsStated ==
  Returned("computeWorksheetC") =>
    LET w == result.value
    IN /\ ~QLe(Num(0), w.ratio) => w.mult = 0
       /\ ~QLe(w.ratio, Num(1)) => w.mult = 11

\* C19, amended: a ratio outside [0, 1] is not clamped: no band contains
\* it, the multiplier stays 0 and the minimum support is 0, below 0 as well
\* as above 1.
C19_NoClamping ==
  Returned("computeWorksheetC") =>
    LET w == result.value
    IN OutsideUnit(w.ratio) =>
         /\ BandsContaining(w.ratio) = {}
         /\ w.mult = 0
         /\ w.minSupport = 0

\* line 3 one unit above the personal allowance: the ratio is above 1 and
\* the multiplier is 0, not 0.11
C19_Witness ==
  /\ Returned("computeWorksheetC")
  /\ params.line3 = 20346 /\ params.line4 = PERSONAL_ALLOWANCE
  /\ OutsideUnit(result.value.ratio)
  /\ result.value.mult = 0 /\ result.value.minSupport = 0

\* C20: when line 3 exceeds a positive line 4 (ratio above 1.00) the
\* multiplier is 0 and the minimum support is 0; when line 4 is 0 the ratio
\* is 0, and so are the multiplier and the minimum support.
C20_MultiplierStaysZero ==
  Returned("computeWorksheetC") =>
    LET w == result.value
    IN /\ (params.line4 > 0 /\ params.line3 > params.line4) =>
            (w.mult = 0 /\ w.minSupport = 0)
       /\ params.line4 = 0 =>
            (w.ratio = Num(0) /\ w.mult = 0 /\ w.minSupport = 0)

\* a line 3 of 30000 against a personal allowance of 0
C20_Witness ==
  /\ Returned("computeWorksheetC")
  /\ params.line3 = 30000 /\ params.line4 = 0
  /\ result.value = [ratio |-> Num(0), mult |-> 0, minSupport |-> 0]

\* C21: for a child whose overnight counts are equal and not both above
\* 110, the parent with the strictly larger per-child base (line 1, in whole
\* units) owes the difference of the two bases, the other parent owes 0, and
\* both owe 0 when the bases are equal.
C21_EqualOvernights ==
  \A i \in 1..Len(perChildResults) :
    LET c == perChildResults[i]
    IN (c.daysM = c.daysF /\ ~(c.daysM > 110 /\ c.daysF > 110)) =>
         /\ BaseM > BaseF => (c.annualM = BaseM - BaseF /\ c.annualF = 0)
         /\ BaseF > BaseM => (c.annualF = BaseF - BaseM /\ c.annualM = 0)
         /\ BaseM = BaseF => (c.annualM = 0 /\ c.annualF = 0)

\* 110 overnights each, one child, the father's income 52000: the mother's
\* base is the larger one and she owes the difference
C21_Witness ==
  /\ pc = "done"
  /\ params.fIncome = Num(52000) /\ params.numChildren = Num(1)
  /\ params.parenting.a = <<Entry(110, 110)>>
  /\ BaseM > BaseF /\ BaseF > 0
  /\ perChildResults[1].annualM = BaseM - BaseF
  /\ perChildResults[1].annualF = 0
  /\ result.payer = "M"

\* C22: for each parent primaryShare = round(share * primaryAllowance),
\* suppShare = round(share * totalSupp), incomeForSola = max(0, line 5 -
\* primaryShare - suppShare), sola = round(incomeForSola * solaFactor) and
\* grossObl = round(share * totalAnnualSupportNeed), where
\* totalAnnualSupportNeed = round(primaryAllowance + totalSupp + both sola);
\* round is r0, which gives 0 for a supplement total that is not a finite
\* number.
C22_ResolverFormulas ==
  AfterCombine =>
    LET ts == comb.totalSupp
        finite == ts.t = "num"
        need == comb.totalAnnualSupportNeed
    IN /\ \A who \in Parents :
            LET x == comb[who]
                s == x.share
            IN /\ x.primaryShare = MathRound(s.n * comb.primaryTotal, s.d)
               /\ x.suppShare =
                    (IF finite THEN MathRound(s.n * ts.n, s.d * ts.d) ELSE 0)
               /\ x.incomeForSola =
                    Max(0, wsA[who].L5 - x.primaryShare - x.suppShare)
               /\ x.sola = MathRound(x.incomeForSola * comb.solaFactor, 100)
               /\ x.grossObl = MathRound(s.n * need, s.d)
       /\ need =
            (IF finite
             THEN MathRound((comb.primaryTotal + comb.mother.sola
                              + comb.father.sola) * ts.d + ts.n, ts.d)
             ELSE 0)

\* incomes 40000 and 6306 without deductions, three children: the father's
\* line 5 is 0 and below his share of the primary allowance, so his income
\* for SOLA is floored at 0; the mother's is positive
C22_Witness ==
  /\ pc = "done"
  /\ params.mIncome = Num(40000) /\ params.mDed = Num(0)
  /\ params.fIncome = Num(6306) /\ params.fDed = Num(0)
  /\ params.numChildren = Num(3)
  /\ comb.father.primaryShare > 0
  /\ wsA.father.L5 - comb.father.primaryShare - comb.father.suppShare < 0
  /\ comb.father.incomeForSola = 0 /\ comb.father.sola = 0
  /\ comb.mother.incomeForSola > 0 /\ comb.mother.sola > 0
  /\ comb.totalAnnualSupportNeed = 14242 + comb.mother.sola

\* C23: each parent's credit is that parent's supplement share, and the net
\* annual obligation after credit is max(0, grossObl - credit): it is never
\* negative and, when the supplement total is not negative, never greater
\* than the gross obligation.
C23_CreditAndNet ==
  AfterCombine =>
    \A who \in Parents :
      LET x == comb[who]
      IN /\ x.credit = x.suppShare
         /\ x.annualAfterCredit = Max(0, x.grossObl - x.credit)
         /\ x.annualAfterCredit >= 0
         /\ ~(comb.totalSupp.t = "num" /\ comb.totalSupp.n < 0) =>
              x.annualAfterCredit <= x.grossObl

\* supplements of 2100 shared by two parents with income: each credit is
\* positive and each net obligation is the gross obligation less the credit
C23_Witness ==
  /\ pc = "done"
  /\ comb.totalSupp = Num(2100)
  /\ \A who \in Parents :
       /\ comb[who].credit > 0
       /\ comb[who].annualAfterCredit = comb[who].grossObl - comb[who].credit
       /\ comb[who].annualAfterCredit > 0
  /\ comb.mother.credit + comb.father.credit = 2100

\* C24: totalAnnualM and totalAnnualF are the sums of annualM and annualF
\* over the entries of perChildResults; for a whole child count there is one
\* entry per child of the clamped count, with childIndex 1..kids in order;
\* each monthly figure is the annual figure divided by 12, rounded to cents.
C24_Aggregation ==
  pc = "done" =>
    LET n == Len(result.perChildResults)
    IN /\ result.totalAnnualM = SumAnnual(result.perChildResults, n, "M")
       /\ result.totalAnnualF = SumAnnual(result.perChildResults, n, "F")
       /\ result.totalMonthlyM = MathRound(result.totalAnnualM * 100, 12)
       /\ result.totalMonthlyF = MathRound(result.totalAnnualF * 100, 12)
       /\ GivenChildren.t # "str" => n = ClampedCount
       /\ \A i \in 1..n :
            LET c == result.perChildResults[i]
            IN /\ c.childIndex = i
               /\ c.monthlyM = MathRound(c.annualM * 100, 12)
               /\ c.monthlyF = MathRound(c.annualF * 100, 12)

\* ten children given, eight entries; the father owes the same amount for
\* each child, and his monthly total is the rounded twelfth of the annual
\* total, not the sum of the children's monthly figures
C24_Witness ==
  /\ pc = "done"
  /\ params.numChildren = Num(10)
  /\ Len(result.perChildResults) = 8
  /\ result.perChildResults[8].childIndex = 8
  /\ result.perChildResults[8].annualF > 0
  /\ result.totalAnnualF = 8 * result.perChildResults[8].annualF
  /\ result.totalMonthlyF = MathRound(result.totalAnnualF * 100, 12)
  /\ result.totalMonthlyF # 8 * result.perChildResults[8].monthlyF

\* C25: the annual transfer, computed from the cent-rounded monthly totals,
\* equals |totalAnnualM - totalAnnualF| exactly, and the payer is the parent
\* with the larger annual total, none exactly when the two are equal.
C25_TransferIsAnnualDifference ==
  pc = "done" =>
    /\ result.totalAnnual = Abs(result.totalAnnualM - result.totalAnnualF)
    /\ (result.payer = "null") <=> (result.totalAnnualM = result.totalAnnualF)
    /\ (result.payer = "M") <=> (result.totalAnnualM > result.totalAnnualF)
    /\ (result.payer = "F") <=> (result.totalAnnualF > result.totalAnnualM)

\* both parents owe something, neither monthly total is a whole number of
\* cents before rounding, and the difference is recovered to the unit
C25_Witness ==
  /\ pc = "done"
  /\ result.totalAnnualM > 0 /\ result.totalAnnualF > 0
  /\ (result.totalAnnualM * 100) % 12 # 0
  /\ (result.totalAnnualF * 100) % 12 # 0
  /\ result.payer = "M"
  /\ result.totalAnnual = result.totalAnnualM - result.totalAnnualF
  /\ result.totalMonthly * 12 # result.totalAnnual * 100

\* C26: for every child, whichever rule ran, each parent's owed amount is
\* >= 0 and <= that parent's own rounded per-child base, and at most one of
\* the two parents owes a non-zero amount.
C26_OwedWithinBase ==
  \A i \in 1..Len(perChildResults) :
    LET c == perChildResults[i]
    IN /\ 0 <= c.annualM /\ c.annualM <= BaseM
       /\ 0 <= c.annualF /\ c.annualF <= BaseF
       /\ c.annualM = 0 \/ c.annualF = 0

\* 365 and 111 overnights: the mother's credited obligation is negative, the
\* difference exceeds the father's base, and he owes his base and no more
C26_Witness ==
  \E i \in 1..Len(perChildResults) :
    LET c == perChildResults[i]
    IN /\ c.rule = "credit" /\ c.daysM = 365 /\ c.daysF = 111
       /\ Adjusted(BaseM, c.daysM) < 0
       /\ Adjusted(BaseF, c.daysF) - Adjusted(BaseM, c.daysM) > BaseF
       /\ c.annualF = BaseF /\ c.annualM = 0 /\ BaseF > 0

\* C27: for a whole child count each parent's total annual owed amount is at
\* most kids * round(annualAfterCredit / kids), and so exceeds that parent's
\* net annual obligation after credit by at most kids / 2.
C27_TotalWithinRoundedBases ==
  (pc = "done" /\ st.kids.t = "num") =>
    LET k == st.kids.n
        aM == comb.mother.annualAfterCredit
        aF == comb.father.annualAfterCredit
    IN /\ result.totalAnnualM <= k * MathRound(aM, k)
       /\ result.totalAnnualF <= k * MathRound(aF, k)
       /\ 2 * (result.totalAnnualM - aM) <= k
       /\ 2 * (result.totalAnnualF - aF) <= k

\* three children all with the mother's fewer overnights: she owes 5218 for
\* each, 15654 in all, one more than her net obligation of 15653
C27_Witness ==
  /\ pc = "done"
  /\ st.kids = Num(3)
  /\ comb.mother.annualAfterCredit = 15653
  /\ \A i \in 1..3 : perChildResults[i].annualM = 5218
  /\ result.totalAnnualM = 15654

\* C28: whenever Worksheet A ran Worksheet C for a parent, the ratio
\* line 3 / line 4 is <= 1, and the line 6 it gave is >= 0 and
\* <= round(0.11 * 20345) = 2238.
C28_WorksheetCWithinAllowance ==
  AfterWorksheetA =>
    \A who \in Parents :
      LET w == wsA[who]
      IN w.hasWsC =>
           /\ w.L3 <= w.L4
           /\ QLe(w.wsC.ratio, Num(1))
           /\ 0 <= w.L6
           /\ w.L6 <= MathRound(11 * PERSONAL_ALLOWANCE, 100)
           /\ MathRound(11 * PERSONAL_ALLOWANCE, 100) = 2238

\* line 3 equal to the personal allowance: ratio 1, multiplier 0.11 and the
\* largest Worksheet C minimum
C28_Witness ==
  /\ pc = "done"
  /\ wsA.mother.hasWsC
  /\ wsA.mother.L3 = PERSONAL_ALLOWANCE
  /\ wsA.mother.wsC.ratio = Q(20345, 20345)
  /\ wsA.mother.wsC.mult = 11
  /\ wsA.mother.L6 = 2238

\* the input with the two parents exchanged: incomes, deductions and each
\* child's overnight pair
SwapParents(p) ==
  [p EXCEPT !.mIncome = p.fIncome, !.fIncome = p.mIncome,
            !.mDed = p.fDed, !.fDed = p.mDed,
            !.parenting.a =
              [i \in 1..Len(p.parenting.a) |->
                 [p.parenting.a[i] EXCEPT !.daysA = p.parenting.a[i].daysB,
                                          !.daysB = p.parenting.a[i].daysA]]]

\* payer, transfer, per-parent totals and per-child amounts of a result
Amounts(r) ==
  [payer |-> r.payer, totalAnnual |-> r.totalAnnual,
   totalMonthly |-> r.totalMonthly,
   totalAnnualM |-> r.totalAnnualM, totalAnnualF |-> r.totalAnnualF,
   totalMonthlyM |-> r.totalMonthlyM, totalMonthlyF |-> r.totalMonthlyF,
   perChild |-> [i \in 1..Len(r.perChildResults) |->
                   LET c == r.perChildResults[i]
                   IN <<c.annualM, c.annualF, c.monthlyM, c.monthlyF>>]]

\* the same with mother and father exchanged
Mirrored(r) ==
  [payer |-> CASE r.payer = "M" -> "F" [] r.payer = "F" -> "M" [] OTHER -> "null",
   totalAnnual |-> r.totalAnnual, totalMonthly |-> r.totalMonthly,
   totalAnnualM |-> r.totalAnnualF, totalAnnualF |-> r.totalAnnualM,
   totalMonthlyM |-> r.totalMonthlyF, totalMonthlyF |-> r.totalMonthlyM,
   perChild |-> [i \in 1..Len(r.perChildResults) |->
                   LET c == r.perChildResults[i]
                   IN <<c.annualF, c.annualM, c.monthlyF, c.monthlyM>>]]

\* C29: when every child has its own schedule entry, the run on the input
\* with the parents exchanged returns the mirrored result: payer M and F
\* exchanged (none stays none), the transfer unchanged, per-parent totals
\* and per-child amounts exchanged.
C29_ParentSymmetry ==
  (pc = "done" /\ \A i \in 1..Len(perChildResults) : Supplied(i)) =>
    Amounts(runMontanaChildSupport(SwapParents(params))) = Mirrored(result)

\* two children with their own entries, credit procedure for the first and
\* simple rule for the second: the mother pays; with the parents exchanged
\* it is the father
C29_Witness ==
  /\ pc = "done"
  /\ Len(perChildResults) = 2
  /\ \A i \in 1..2 : Supplied(i)
  /\ perChildResults[1].rule = "credit" /\ perChildResults[1].annualM > 0
  /\ perChildResults[2].rule = "simple"
  /\ result.payer = "M"
  /\ runMontanaChildSupport(SwapParents(params)).payer = "F"

\* a finite amount that is not negative, after the destructuring default
FiniteNonNegative(v) ==
  LET x == Default(v, Num(0)) IN x.t = "num" /\ x.n >= 0

\* every income, deduction and supplemental expense of the input is a finite
\* non-negative number
AmountsFiniteNonNegative ==
  /\ \A f \in IncomeFields : FiniteNonNegative(params[f])
  /\ params.supplements.k \in {"obj", "undef"}
  /\ params.supplements.k = "obj" =>
       \A f \in SuppFields : FiniteNonNegative(params.supplements[f])

\* C30: for every input with finite non-negative amounts the two parents'
\* gross obligations add up to totalAnnualSupportNeed or to
\* totalAnnualSupportNeed + 1, so never to less than the need.
C30_GrossCoversNeed ==
  (AfterCombine /\ AmountsFiniteNonNegative) =>
    LET s == comb.mother.grossObl + comb.father.grossObl
        need == comb.totalAnnualSupportNeed
    IN /\ s \in {need, need + 1}
       /\ s >= need

\* equal shares of an odd need: both halves round up and the obligations
\* add up to the need plus one
C30_Witness ==
  /\ AfterCombine /\ AmountsFiniteNonNegative
  /\ comb.mother.share = Q(1, 2)
  /\ comb.totalAnnualSupportNeed % 2 = 1
  /\ comb.mother.grossObl = comb.father.grossObl
  /\ comb.mother.grossObl + comb.father.grossObl =
       comb.totalAnnualSupportNeed + 1

====
